---- MODULE Spec2Model ----
(***************************************************************************)
(* Model of the game screen (GamePage) of src/App.tsx: the session state   *)
(* machine over a shuffled question list, the drop evaluation, the hint    *)
(* timer and the two-step illustration request.                            *)
(*                                                                         *)
(* One behaviour is the life of one mounted GamePage: Init is the state    *)
(* after the first render and its effects, every action is one browser     *)
(* event (drop, click, timer expiry, promise settlement) together with the *)
(* React effects that the resulting render runs.                           *)
(***************************************************************************)
EXTENDS Integers, Sequences, FiniteSets, TLC

\* ---------------------------------------------------------------- bounds
\* Largest timer handle window.setTimeout hands out in one behaviour.
MaxTimerId == 4
\* Longest list handed to shuffleArray when it is checked on its own.
MaxShuffleLen == 3

\* ------------------------------------------------------------ data model
Subjects == {"Matematica", "Portugues"}
Levels == {1, 2}

\* A sample of the bundled question bank: two questions for
\* (Matematica, 1), one for (Portugues, 1), none for level 2.
ALL_QUESTIONS ==
  << [id |-> 1, subject |-> "Matematica", level |-> 1, correctAnswer |-> "4"],
     [id |-> 2, subject |-> "Matematica", level |-> 1, correctAnswer |-> "cat"],
     [id |-> 3, subject |-> "Portugues", level |-> 1, correctAnswer |-> "bola"] >>

\* Payloads a drop event can carry: option values and a foreign string.
DropValues == {"4", "cat", "bola", "dog"}

SettingsSet ==
  [isTtsEnabled : BOOLEAN, isHighContrast : BOOLEAN, reduceMotion : BOOLEAN]

NullUrl == [kind |-> "null", q |-> 0]
DefaultSrc(q) == [kind |-> "default", q |-> q.id]
GeneratedUrl(q) == [kind |-> "generated", q |-> q.id]

VARIABLES
  subject, level, settings,      \* GamePage props
  questions,                     \* useMemo: filtered and shuffled list
  currentIndex, score, isDragOver,
  feedback,                      \* "none" | "correct" | "incorrect"
  showHint,
  hintTimeoutRef,                \* 0 = null, else a timer handle
  isMounted,
  illustrationUrl, isGenerating,
  timers,                        \* handles of the pending window timers
  nextTimerId,                   \* next handle window.setTimeout returns
  requests,                      \* in-flight generateIllustration calls
  utterance,                     \* id of the question being spoken, 0 = none
  alertScore,                    \* score shown by the end alert, 0 = no alert
  \* one call of shuffleArray, checked on its own (SpecShuffle)
  shInput,                       \* the list of identifiers passed in
  shArray,                       \* the caller's array object
  shResult,                      \* the returned list
  shPc,                          \* "ready" | "returned" | "unused"
  \* the application shell around the pages
  page,                          \* "Home" | "Settings" | "Game"
  storedItem                     \* localStorage item 'apprenda-settings'

shuffleVars == << shInput, shArray, shResult, shPc >>

appVars == << page, storedItem >>

vars == << subject, level, settings, questions, currentIndex, score,
           isDragOver, feedback, showHint, hintTimeoutRef, isMounted,
           illustrationUrl, isGenerating, timers, nextTimerId, requests,
           utterance, alertScore, shuffleVars, appVars >>

\* ------------------------------------------------------- settings store
SettingKeys == {"isTtsEnabled", "isHighContrast", "reduceMotion"}

\* initialValue of useLocalStorage in App.
DefaultSettings ==
  [isTtsEnabled |-> FALSE, isHighContrast |-> FALSE, reduceMotion |-> FALSE]

\* JSON.stringify of a settings record: its members in insertion order.
stringify(s) ==
  << << "isTtsEnabled", s.isTtsEnabled >>,
     << "isHighContrast", s.isHighContrast >>,
     << "reduceMotion", s.reduceMotion >> >>

\* JSON.parse of such a text: the record with the listed members.
parse(text) ==
  [k \in {text[n][1] : n \in DOMAIN text} |->
     (CHOOSE n \in DOMAIN text : text[n][1] = k) \in {m \in DOMAIN text : text[m][2]}]

\* What the storage can hold at startup: nothing, a text that does not
\* parse, or a record written earlier.
StoredItems ==
  {[kind |-> "absent", text |-> << >>], [kind |-> "corrupt", text |-> << >>]}
    \cup {[kind |-> "json", text |-> stringify(s)] : s \in SettingsSet}

\* The lazy initial state of useLocalStorage: the parsed item, or
\* initialValue when the item is missing or JSON.parse throws.
readStored(item) ==
  IF item.kind = "json" THEN parse(item.text) ELSE DefaultSettings

\* Variant of toggled: the record is rebuilt without spreading prev.
toggledWithoutSpread(prev, key) ==
  [k \in DOMAIN prev |-> IF k = key THEN ~prev[k] ELSE FALSE]

\* prev => ({ ...prev, [key]: !prev[key] }) of toggleSetting.
toggled(prev, key) == [prev EXCEPT ![key] = ~prev[key]]

\* ------------------------------------------------------------- shuffle
\* Variant of Swap: array[i] = array[j] without the exchange.
SwapOverwrites(array, i, j) ==
  [k \in 1..Len(array) |-> IF k = i + 1 THEN array[j + 1] ELSE array[k]]

\* array[i] <-> array[j], indices 0-based as in the source.
Swap(array, i, j) ==
  [k \in 1..Len(array) |->
     IF k = i + 1 THEN array[j + 1]
     ELSE IF k = j + 1 THEN array[i + 1]
     ELSE array[k]]

RECURSIVE shuffleFrom(_, _)
\* The loop of shuffleArray from index i down to 1, every value of
\* Math.floor(Math.random() * (i + 1)) in 0..i being possible.
shuffleFrom(array, i) ==
  IF i > 0
    THEN UNION { shuffleFrom(Swap(array, i, j), i - 1) : j \in 0..i }
    ELSE {array}

\* The set of lists shuffleArray can return for an input.
shuffleArray(array) == shuffleFrom(array, Len(array) - 1)

filtered(subj, lvl) ==
  SelectSeq(ALL_QUESTIONS, LAMBDA q : q.subject = subj /\ q.level = lvl)

\* ------------------------------------------------------ derived values
HasQuestion == currentIndex + 1 \in DOMAIN questions
currentQuestion == questions[currentIndex + 1]

\* The feedback modal is rendered while feedback is set.
ModalOpen == feedback # "none"

\* Variant of PageReachable: the modal does not cover the page.
PageReachableUnderModal == TRUE

\* The open modal is a fixed full-viewport layer above the page (fixed
\* inset-0 z-50): while it is open no pointer or drag event reaches the
\* drop area, the options or the home button.
PageReachable == ~ModalOpen

\* src attribute of the illustration <img>.
displayedSrc ==
  IF illustrationUrl # NullUrl THEN illustrationUrl ELSE DefaultSrc(currentQuestion)

\* ------------------------------------------------- question-start effect
\* speak of useSpeech: cancels the running utterance and starts a new one
\* when text-to-speech is enabled; q is the question whose prompt is read.
speak(s, q, utt) == IF s.isTtsEnabled THEN q.id ELSE utt

\* Variant of questionEffect: the reduceMotion branch is missing.
questionEffectAlwaysGenerates(s, q, st) ==
  [utterance |-> speak(s, q, st.utterance),
   illustrationUrl |-> NullUrl,
   isGenerating |-> TRUE,
   requests |-> st.requests \cup {[q |-> q, step |-> 1]}]

\* The synchronous part of the effect on [currentQuestion, speak,
\* settings.reduceMotion], run for question q while the component is
\* mounted; st carries utterance, illustrationUrl, isGenerating, requests.
questionEffect(s, q, st) ==
  IF s.reduceMotion
    THEN [st EXCEPT !.utterance = speak(s, q, st.utterance),
                    !.illustrationUrl = DefaultSrc(q)]
    ELSE [utterance |-> speak(s, q, st.utterance),
          illustrationUrl |-> NullUrl,
          isGenerating |-> TRUE,
          requests |-> st.requests \cup {[q |-> q, step |-> 1]}]

\* Variant of startQuestion: the loading flag is raised before the effect
\* looks at the question.
startQuestionFlagFirst(s, qs, i, st) ==
  IF i + 1 \in DOMAIN qs
    THEN questionEffect(s, qs[i + 1], st)
    ELSE [st EXCEPT !.isGenerating = TRUE]

\* The effect run by the render that shows index i: its body is skipped
\* when questions[i] is undefined (if (currentQuestion)).
startQuestion(s, qs, i, st) ==
  IF i + 1 \in DOMAIN qs THEN questionEffect(s, qs[i + 1], st) ELSE st

NoEffectState ==
  [utterance |-> 0, illustrationUrl |-> NullUrl, isGenerating |-> FALSE,
   requests |-> {}]

\* ------------------------------------------------------------------ Init
Init ==
  /\ subject \in Subjects
  /\ level \in Levels
  /\ settings \in SettingsSet
  /\ questions \in shuffleArray(filtered(subject, level))
  /\ currentIndex = 0
  /\ score = 0
  /\ isDragOver = FALSE
  /\ feedback = "none"
  /\ showHint = FALSE
  /\ hintTimeoutRef = 0
  /\ isMounted = TRUE
  /\ timers = {}
  /\ nextTimerId = 1
  /\ alertScore = 0
  /\ shInput = << >> /\ shArray = << >> /\ shResult = << >>
  /\ shPc = "unused"
  /\ page = "Game"
  /\ storedItem = [kind |-> "json", text |-> stringify(settings)]
  /\ LET st == startQuestion(settings, questions, 0, NoEffectState)
     IN /\ utterance = st.utterance
        /\ illustrationUrl = st.illustrationUrl
        /\ isGenerating = st.isGenerating
        /\ requests = st.requests

\* ----------------------------------------------------------- drop events
\* Variant of handleDrop: the hint timer is scheduled on every drop.
handleDropAlwaysHints(a, v, q) ==
  [a EXCEPT !.score = IF v = q.correctAnswer THEN a.score + 1 ELSE a.score,
            !.feedback = IF v = q.correctAnswer THEN "correct" ELSE "incorrect",
            !.hintTimeoutRef = a.nextTimerId,
            !.timers = a.timers \cup {a.nextTimerId},
            !.nextTimerId = a.nextTimerId + 1]

\* One run of handleDrop on the attempt state a, with payload v.
handleDrop(a, v, q) ==
  IF v = q.correctAnswer
    THEN [a EXCEPT !.score = a.score + 1, !.feedback = "correct"]
    ELSE [a EXCEPT !.feedback = "incorrect",
                   !.hintTimeoutRef = a.nextTimerId,
                   !.timers = a.timers \cup {a.nextTimerId},
                   !.nextTimerId = a.nextTimerId + 1]

\* The handlers a drop on the DropZone runs: the DropZone's own onDrop,
\* then, the event bubbling, the onDrop of the enclosing drop area.
dropHandlers(a, v, q) == handleDrop(handleDrop(a, v, q), v, q)

\* Variant of Drop: the question-start effect has no dependency list and
\* runs again after the render the drop causes.
DropRerunsEffect(v) ==
  /\ isMounted /\ HasQuestion /\ PageReachable
  /\ v = currentQuestion.correctAnswer \/ nextTimerId + 1 <= MaxTimerId
  /\ LET a == dropHandlers([score |-> score, feedback |-> feedback,
                            hintTimeoutRef |-> hintTimeoutRef,
                            timers |-> timers, nextTimerId |-> nextTimerId],
                           v, currentQuestion)
         st == startQuestion(settings, questions, currentIndex,
                             [utterance |-> utterance,
                              illustrationUrl |-> illustrationUrl,
                              isGenerating |-> isGenerating,
                              requests |-> requests])
     IN /\ score' = a.score
        /\ feedback' = a.feedback
        /\ hintTimeoutRef' = a.hintTimeoutRef
        /\ timers' = a.timers
        /\ nextTimerId' = a.nextTimerId
        /\ utterance' = st.utterance
        /\ illustrationUrl' = st.illustrationUrl
        /\ isGenerating' = st.isGenerating
        /\ requests' = st.requests
  /\ UNCHANGED << shuffleVars, appVars, subject, level, settings, questions,
                  currentIndex, isDragOver, showHint, isMounted, alertScore >>

\* A drop event with payload v on the drop zone.
Drop(v) ==
  /\ isMounted /\ HasQuestion /\ PageReachable
  /\ v = currentQuestion.correctAnswer \/ nextTimerId + 1 <= MaxTimerId
  /\ LET a == dropHandlers([score |-> score, feedback |-> feedback,
                            hintTimeoutRef |-> hintTimeoutRef,
                            timers |-> timers, nextTimerId |-> nextTimerId],
                           v, currentQuestion)
     IN /\ score' = a.score
        /\ feedback' = a.feedback
        /\ hintTimeoutRef' = a.hintTimeoutRef
        /\ timers' = a.timers
        /\ nextTimerId' = a.nextTimerId
  /\ UNCHANGED << shuffleVars, appVars, subject, level, settings, questions, currentIndex,
                  isDragOver, showHint, isMounted, illustrationUrl,
                  isGenerating, requests, utterance, alertScore >>

\* Variant of DragEnter: the render it causes shuffles the list again, as
\* it would without the memoisation on [subject, level].
DragEnterReshuffles ==
  /\ isMounted /\ HasQuestion /\ PageReachable
  /\ isDragOver' = TRUE
  /\ questions' \in shuffleArray(filtered(subject, level))
  /\ UNCHANGED << shuffleVars, appVars, subject, level, settings, currentIndex, score,
                  feedback, showHint, hintTimeoutRef, isMounted,
                  illustrationUrl, isGenerating, timers, nextTimerId,
                  requests, utterance, alertScore >>

DragEnter ==
  /\ isMounted /\ HasQuestion /\ PageReachable
  /\ isDragOver' = TRUE
  /\ UNCHANGED << shuffleVars, appVars, subject, level, settings, questions, currentIndex, score,
                  feedback, showHint, hintTimeoutRef, isMounted,
                  illustrationUrl, isGenerating, timers, nextTimerId,
                  requests, utterance, alertScore >>

DragLeave ==
  /\ isMounted /\ HasQuestion /\ PageReachable
  /\ isDragOver' = FALSE
  /\ UNCHANGED << shuffleVars, appVars, subject, level, settings, questions, currentIndex, score,
                  feedback, showHint, hintTimeoutRef, isMounted,
                  illustrationUrl, isGenerating, timers, nextTimerId,
                  requests, utterance, alertScore >>

\* The hint timer with handle id expires: () => setShowHint(true).  A
\* state update of an unmounted component is dropped by React.
HintTimerFires(id) ==
  /\ id \in timers
  /\ timers' = timers \ {id}
  /\ showHint' = IF isMounted THEN TRUE ELSE showHint
  /\ UNCHANGED << shuffleVars, appVars, subject, level, settings, questions, currentIndex, score,
                  isDragOver, feedback, hintTimeoutRef, isMounted,
                  illustrationUrl, isGenerating, nextTimerId, requests,
                  utterance, alertScore >>

\* ------------------------------------------------------ feedback dismissal
\* clearTimeout(hintTimeoutRef.current) of resetAttemptState.
clearedTimers(ref, ts) == IF ref # 0 THEN ts \ {ref} ELSE ts

\* Variant of closesCorrect: any dismissal is taken for a correct one.
closesAny(fb) == TRUE

\* feedback?.correct of handleCloseFeedback.
closesCorrect(fb) == fb = "correct"

\* Variant of hasNextQuestion: the bound is off by one.
hasNextQuestionOffByOne(i, qs) == i < Len(qs)

\* currentIndex < questions.length - 1 of handleCloseFeedback.
hasNextQuestion(i, qs) == i < Len(qs) - 1

\* Click on the modal's button.
handleCloseFeedback ==
  /\ isMounted /\ HasQuestion /\ ModalOpen
  /\ IF closesCorrect(feedback)
       THEN IF hasNextQuestion(currentIndex, questions)
              THEN LET st == startQuestion(settings, questions, currentIndex + 1,
                               [utterance |-> utterance,
                                illustrationUrl |-> illustrationUrl,
                                isGenerating |-> isGenerating,
                                requests |-> requests])
                   IN /\ currentIndex' = currentIndex + 1
                      /\ utterance' = st.utterance
                      /\ illustrationUrl' = st.illustrationUrl
                      /\ isGenerating' = st.isGenerating
                      /\ requests' = st.requests
                      /\ UNCHANGED << alertScore, isMounted >>
              ELSE /\ alertScore' = score + 1
                   /\ isMounted' = FALSE
                   /\ UNCHANGED << currentIndex, utterance, illustrationUrl,
                                   isGenerating, requests >>
       ELSE UNCHANGED << currentIndex, utterance, illustrationUrl,
                         isGenerating, requests, alertScore, isMounted >>
  \* resetAttemptState
  /\ isDragOver' = FALSE
  /\ feedback' = "none"
  /\ showHint' = FALSE
  /\ timers' = clearedTimers(hintTimeoutRef, timers)
  /\ UNCHANGED << shuffleVars, appVars, subject, level, settings, questions, score, hintTimeoutRef,
                  nextTimerId >>

\* Click on the home button of the game header: navigateHome unmounts the
\* GamePage, whose cleanup sets isMounted.current = false.
navigateHome ==
  /\ isMounted /\ HasQuestion /\ PageReachable
  /\ isMounted' = FALSE
  /\ UNCHANGED << shuffleVars, appVars, subject, level, settings, questions, currentIndex, score,
                  isDragOver, feedback, showHint, hintTimeoutRef,
                  illustrationUrl, isGenerating, timers, nextTimerId,
                  requests, utterance, alertScore >>

\* ------------------------------------------------- illustration requests
\* Step 1 (generateContent) resolves; step 2 (generateImages) is issued.
PromptDerived(r) ==
  /\ r \in requests /\ r.step = 1
  /\ requests' = (requests \ {r}) \cup {[r EXCEPT !.step = 2]}
  /\ UNCHANGED << shuffleVars, appVars, subject, level, settings, questions, currentIndex, score,
                  isDragOver, feedback, showHint, hintTimeoutRef, isMounted,
                  illustrationUrl, isGenerating, timers, nextTimerId,
                  utterance, alertScore >>

\* Variant of settle: the isMounted.current guards are missing.
settleUnguarded(mounted, url, st) ==
  [illustrationUrl |-> url, isGenerating |-> FALSE]

\* Variant of settle: the finally block does not clear the loading flag.
settleKeepsFlag(mounted, url, st) ==
  IF mounted
    THEN [illustrationUrl |-> url, isGenerating |-> st.isGenerating]
    ELSE st

\* What a settling request does with result url: the guarded
\* setIllustrationUrl of the try or catch block, then the finally block.
settle(mounted, url, st) ==
  IF mounted
    THEN [illustrationUrl |-> url, isGenerating |-> FALSE]
    ELSE st

\* Step 2 resolves with an image.
ImageGenerated(r) ==
  /\ r \in requests /\ r.step = 2
  /\ requests' = requests \ {r}
  /\ LET st == settle(isMounted, GeneratedUrl(r.q),
                      [illustrationUrl |-> illustrationUrl,
                       isGenerating |-> isGenerating])
     IN /\ illustrationUrl' = st.illustrationUrl
        /\ isGenerating' = st.isGenerating
  /\ UNCHANGED << shuffleVars, appVars, subject, level, settings, questions, currentIndex, score,
                  isDragOver, feedback, showHint, hintTimeoutRef, isMounted,
                  timers, nextTimerId, utterance, alertScore >>

\* Either step rejects (or the response carries no image): catch, finally.
IllustrationFails(r) ==
  /\ r \in requests
  /\ requests' = requests \ {r}
  /\ LET st == settle(isMounted, DefaultSrc(r.q),
                      [illustrationUrl |-> illustrationUrl,
                       isGenerating |-> isGenerating])
     IN /\ illustrationUrl' = st.illustrationUrl
        /\ isGenerating' = st.isGenerating
  /\ UNCHANGED << shuffleVars, appVars, subject, level, settings, questions, currentIndex, score,
                  isDragOver, feedback, showHint, hintTimeoutRef, isMounted,
                  timers, nextTimerId, utterance, alertScore >>

\* The speech engine finishes the running utterance.
SpeechEnds ==
  /\ utterance # 0
  /\ utterance' = 0
  /\ UNCHANGED << shuffleVars, appVars, subject, level, settings, questions, currentIndex, score,
                  isDragOver, feedback, showHint, hintTimeoutRef, isMounted,
                  illustrationUrl, isGenerating, timers, nextTimerId,
                  requests, alertScore >>

Next ==
  \/ \E v \in DropValues : Drop(v)
  \/ DragEnter
  \/ DragLeave
  \/ \E id \in timers : HintTimerFires(id)
  \/ handleCloseFeedback
  \/ navigateHome
  \/ \E r \in requests : PromptDerived(r)
  \/ \E r \in requests : ImageGenerated(r)
  \/ \E r \in requests : IllustrationFails(r)
  \/ SpeechEnds

Spec == Init /\ [][Next]_vars

\* A pending step of some illustration request completes.
Resolve ==
  \E r \in requests : PromptDerived(r) \/ ImageGenerated(r) \/ IllustrationFails(r)

\* The game under the assumption that the illustration provider answers
\* every call, with a result or a failure.
SpecResolving == Init /\ [][Next]_vars /\ WF_vars(Resolve)

\* --------------------------------------------------- shuffleArray alone
ShuffleIds == {1, 2, 3}

ShuffleInputs ==
  UNION { [1..n -> ShuffleIds] : n \in 0..MaxShuffleLen }

\* The caller's array after the call: shuffleArray works on the copy
\* [...array] and never writes to its argument.
argumentAfter(array, result) == array

\* No game page is mounted; a list of identifiers is about to be shuffled.
ShuffleInit ==
  /\ shInput \in ShuffleInputs
  /\ shArray = shInput
  /\ shResult = << >>
  /\ shPc = "ready"
  /\ page = "Home"
  /\ storedItem = [kind |-> "absent", text |-> << >>]
  /\ subject = "Matematica" /\ level = 1
  /\ settings = [isTtsEnabled |-> FALSE, isHighContrast |-> FALSE,
                 reduceMotion |-> FALSE]
  /\ questions = << >>
  /\ currentIndex = 0 /\ score = 0 /\ isDragOver = FALSE
  /\ feedback = "none" /\ showHint = FALSE /\ hintTimeoutRef = 0
  /\ isMounted = FALSE
  /\ illustrationUrl = NullUrl /\ isGenerating = FALSE
  /\ timers = {} /\ nextTimerId = 1 /\ requests = {}
  /\ utterance = 0 /\ alertScore = 0

\* One call shuffleArray(shArray).
ShuffleCall ==
  /\ shPc = "ready"
  /\ shResult' \in shuffleArray(shArray)
  /\ shArray' = argumentAfter(shArray, shResult')
  /\ shPc' = "returned"
  /\ UNCHANGED << appVars, shInput, subject, level, settings, questions, currentIndex,
                  score, isDragOver, feedback, showHint, hintTimeoutRef,
                  isMounted, illustrationUrl, isGenerating, timers,
                  nextTimerId, requests, utterance, alertScore >>

ShuffleNext == ShuffleCall

SpecShuffle == ShuffleInit /\ [][ShuffleNext]_vars

\* ------------------------------------------------- settings page alone
\* The application starts on the home page; no game page is mounted.
SettingsInit ==
  /\ storedItem \in StoredItems
  /\ settings = readStored(storedItem)
  /\ page = "Home"
  /\ subject = "Matematica" /\ level = 1
  /\ questions = << >>
  /\ currentIndex = 0 /\ score = 0 /\ isDragOver = FALSE
  /\ feedback = "none" /\ showHint = FALSE /\ hintTimeoutRef = 0
  /\ isMounted = FALSE
  /\ illustrationUrl = NullUrl /\ isGenerating = FALSE
  /\ timers = {} /\ nextTimerId = 1 /\ requests = {}
  /\ utterance = 0 /\ alertScore = 0
  /\ shInput = << >> /\ shArray = << >> /\ shResult = << >>
  /\ shPc = "unused"

\* Click on the settings button of the home page.
NavigateToSettings ==
  /\ page = "Home"
  /\ page' = "Settings"
  /\ UNCHANGED << storedItem, shuffleVars, subject, level, settings,
                  questions, currentIndex, score, isDragOver, feedback,
                  showHint, hintTimeoutRef, isMounted, illustrationUrl,
                  isGenerating, timers, nextTimerId, requests, utterance,
                  alertScore >>

\* Click on the back button of the settings page.
SettingsNavigateBack ==
  /\ page = "Settings"
  /\ page' = "Home"
  /\ UNCHANGED << storedItem, shuffleVars, subject, level, settings,
                  questions, currentIndex, score, isDragOver, feedback,
                  showHint, hintTimeoutRef, isMounted, illustrationUrl,
                  isGenerating, timers, nextTimerId, requests, utterance,
                  alertScore >>

\* Click on the control of setting key: toggleSetting through setValue of
\* useLocalStorage, the write to the storage succeeding.
ToggleSetting(key) ==
  /\ page = "Settings"
  /\ settings' = toggled(settings, key)
  /\ storedItem' = [kind |-> "json", text |-> stringify(settings')]
  /\ UNCHANGED << page, shuffleVars, subject, level,
                  questions, currentIndex, score, isDragOver, feedback,
                  showHint, hintTimeoutRef, isMounted, illustrationUrl,
                  isGenerating, timers, nextTimerId, requests, utterance,
                  alertScore >>

\* The same click when localStorage.setItem throws: the state has been set
\* already, the exception is caught and logged.
ToggleSettingWriteFails(key) ==
  /\ page = "Settings"
  /\ settings' = toggled(settings, key)
  /\ UNCHANGED << page, storedItem, shuffleVars, subject, level,
                  questions, currentIndex, score, isDragOver, feedback,
                  showHint, hintTimeoutRef, isMounted, illustrationUrl,
                  isGenerating, timers, nextTimerId, requests, utterance,
                  alertScore >>

SettingsNext ==
  \/ NavigateToSettings
  \/ SettingsNavigateBack
  \/ \E key \in SettingKeys : ToggleSetting(key)
  \/ \E key \in SettingKeys : ToggleSettingWriteFails(key)

SpecSettings == SettingsInit /\ [][SettingsNext]_vars

\* ================================================================ claims

\* C1: in every reachable state of a session, 0 <= score <= number of
\* questions of the session.
C1_ScoreInRange == 0 <= score /\ score <= Len(questions)

\* C2: when correct feedback is dismissed on the last question the session
\* ends and the score reported to the player is the accumulated score, which
\* is at most the number of questions.
C2_ReportedScore ==
  alertScore # 0 => (alertScore = score /\ alertScore <= Len(questions))

\* C3: the score grows by exactly 1 per question, on its accepting correct
\* drop: while the session is alive it equals the number of questions
\* already left behind, plus one once the current question has been
\* answered correctly.
C3_OnePointPerQuestion ==
  isMounted => score = currentIndex + (IF feedback = "correct" THEN 1 ELSE 0)

\* C4: while feedback is set and not yet dismissed no drop is accepted: no
\* step changes the score or schedules a hint timer, and the feedback
\* changes only by being dismissed.
C4_NoDropWhileFeedback ==
  [][ModalOpen => /\ score' = score
                  /\ nextTimerId' = nextTimerId
                  /\ timers' \subseteq timers
                  /\ feedback' \in {feedback, "none"}]_vars

\* C4 witness: incorrect feedback of a second or later question has stayed
\* open long enough for a hint timer to expire.
C4_Witness == feedback = "incorrect" /\ showHint /\ currentIndex > 0

\* C5: an incorrect drop leaves exactly one hint timer pending, so at most
\* one hint timer is pending at any time.
C5_AtMostOneHintTimer == Cardinality(timers) <= 1

\* C6: a hint timer never makes the hint visible after the attempt state
\* has been reset: while no incorrect feedback is shown, no step turns the
\* hint visible.
C6_NoStaleHint ==
  [][(isMounted /\ feedback # "incorrect") => ~(~showHint /\ showHint')]_vars

\* C7: the settlement of an illustration request issued for a question that
\* is no longer the current one changes neither the illustration URL nor the
\* generating flag.
C7_StaleRequestIgnored ==
  [][\A r \in requests :
       (isMounted /\ r \notin requests' /\ [r EXCEPT !.step = 2] \notin requests'
          /\ r.q # currentQuestion)
       => (illustrationUrl' = illustrationUrl /\ isGenerating' = isGenerating)]_vars

\* C8: after the player has left the game no hint timer of the session is
\* pending.
C8_NoTimerAfterTeardown == ~isMounted => timers = {}

\* C9: after teardown no settling illustration request updates the
\* illustration URL or the generating flag.
C9_DiscardAfterTeardown ==
  [][~isMounted => (illustrationUrl' = illustrationUrl
                    /\ isGenerating' = isGenerating)]_vars

\* C9 witness: the game was left while a request was in flight and the
\* request has settled since: the flag it would have cleared is still set.
C9_Witness == ~isMounted /\ isGenerating /\ requests = {}

\* C10: dismissing incorrect feedback leaves index and score unchanged,
\* clears feedback and hint, and leaves no hint timer pending.
C10_DismissIncorrect ==
  [][(isMounted /\ feedback = "incorrect" /\ feedback' = "none")
       => /\ currentIndex' = currentIndex
          /\ score' = score
          /\ ~showHint'
          /\ timers' = {}]_vars

\* C11: dismissing correct feedback on a question that is not the last one
\* advances the index by exactly 1 and resets the attempt state fully:
\* drag-over false, feedback none, hint hidden, no hint timer pending.
C11_DismissCorrectResets ==
  [][(isMounted /\ feedback = "correct" /\ feedback' = "none"
        /\ currentIndex < Len(questions) - 1)
       => /\ currentIndex' = currentIndex + 1
          /\ ~isDragOver'
          /\ ~showHint'
          /\ timers' = {}]_vars

\* C12: the current index changes only when correct feedback is dismissed,
\* and then by one; drops, dismissals of incorrect feedback, timer expiries
\* and request settlements leave it unchanged.
C12_IndexChangesOnCorrectDismissal ==
  [][currentIndex' # currentIndex
       => /\ feedback = "correct"
          /\ feedback' = "none"
          /\ currentIndex' = currentIndex + 1]_vars

\* C12 witness: the second question is shown after incorrect feedback has
\* been dismissed at least once in the session.
C12_Witness == currentIndex = 1 /\ nextTimerId > 1 /\ feedback = "none"

\* C13: in a session with at least one question the current index stays
\* within the question list, so the current question is always defined.
C13_IndexInRange ==
  Len(questions) > 0 => (0 <= currentIndex /\ currentIndex < Len(questions))

\* C13 witness: the last question of a two-question session has been
\* answered and its feedback dismissed.
C13_Witness == Len(questions) = 2 /\ currentIndex = 1 /\ alertScore # 0

\* C14: a drop of the current question's correct answer sets feedback to
\* correct and schedules no hint timer.
C14_CorrectDropNoTimer ==
  [][\A v \in DropValues :
       (Drop(v) /\ v = currentQuestion.correctAnswer)
       => /\ feedback' = "correct"
          /\ timers' = timers
          /\ nextTimerId' = nextTimerId
          /\ hintTimeoutRef' = hintTimeoutRef]_vars

\* C14 witness: the correct answer of the second question has been dropped.
C14_Witness == feedback = "correct" /\ currentIndex = 1

\* C15: when an illustration request fails at either step while the session
\* is alive, the generating flag is false afterwards and the displayed
\* illustration is the default illustration of the request's question; the
\* failure touches nothing that drops and dismissals depend on.
C15_FailureFallsBack ==
  [][\A r \in requests :
       (isMounted /\ IllustrationFails(r))
       => /\ ~isGenerating'
          /\ displayedSrc' = DefaultSrc(r.q)
          /\ UNCHANGED << feedback, currentIndex, score, isMounted,
                          questions, nextTimerId >>]_vars

\* C15 witness: with animations on, a request of a live session has failed
\* and the default illustration of the current question is displayed.
C15_Witness ==
  /\ isMounted /\ HasQuestion /\ ~settings.reduceMotion /\ ~isGenerating
  /\ illustrationUrl = DefaultSrc(currentQuestion)

\* C16: with reduced motion enabled no illustration request is issued, the
\* generating flag is never true and the current question shows its default
\* static illustration from its start on.
C16_ReducedMotionStatic ==
  settings.reduceMotion
    => /\ requests = {}
       /\ ~isGenerating
       /\ HasQuestion => /\ illustrationUrl = DefaultSrc(currentQuestion)
                         /\ displayedSrc = DefaultSrc(currentQuestion)

\* C16 witness: a reduced-motion session has reached its second question.
C16_Witness == settings.reduceMotion /\ currentIndex = 1 /\ isMounted

\* C17: a session whose filtered question set is empty stays in its initial
\* no-question state: no current question, index and score 0, no feedback,
\* no drag-over, nothing spoken, no illustration requested or loading.
C17_EmptySessionInert ==
  Len(questions) = 0
    => /\ ~HasQuestion
       /\ currentIndex = 0 /\ score = 0
       /\ feedback = "none" /\ ~isDragOver /\ ~showHint
       /\ timers = {} /\ requests = {} /\ utterance = 0
       /\ ~isGenerating /\ illustrationUrl = NullUrl
       /\ isMounted /\ alertScore = 0

\* C17 witness: an empty session mounted with speech on and animations on,
\* the settings under which a question would be read and illustrated.
C17_Witness ==
  Len(questions) = 0 /\ settings.isTtsEnabled /\ ~settings.reduceMotion

\* Number of occurrences of x in the list a.
Occurrences(a, x) == Cardinality({k \in DOMAIN a : a[k] = x})

SameMultiset(a, b) ==
  /\ Len(a) = Len(b)
  /\ \A x \in ShuffleIds : Occurrences(a, x) = Occurrences(b, x)

\* All rearrangements of the list a.
Rearrangements(a) ==
  {b \in [1..Len(a) -> ShuffleIds] : SameMultiset(a, b)}

\* C18: shuffleArray returns a list of the same length with the same
\* multiset of identifiers as its input, leaves its input unmodified, and
\* every permutation of the input is a possible result.
C18_ShuffleIsPermutation ==
  /\ shPc = "returned" => /\ Len(shResult) = Len(shInput)
                          /\ SameMultiset(shResult, shInput)
                          /\ shArray = shInput
  /\ shPc # "unused" => Rearrangements(shInput) \subseteq shuffleArray(shInput)

\* C18 witness: a three-element list with a repeated identifier came back
\* in a different order.
C18_Witness ==
  /\ shPc = "returned" /\ Len(shInput) = 3
  /\ shResult # shInput
  /\ shInput[1] = shInput[2] /\ shInput[3] # shInput[1]

\* C19: the question order is fixed for the lifetime of a session: no
\* drop, dismissal, advance, timer expiry, request settlement or render
\* changes the shuffled question list.
C19_OrderFixed == [][questions' = questions]_vars

\* C19 witness: a session whose shuffle reversed the two questions has
\* gone through an incorrect drop and reached its second question.
C19_Witness ==
  /\ Len(questions) = 2 /\ questions[1].id = 2
  /\ currentIndex = 1 /\ nextTimerId > 1

\* C20: after the player has left the game no utterance started by the
\* session is still being spoken.
C20_NoSpeechAfterTeardown == ~isMounted => utterance = 0

\* C22: the hint is visible only while incorrect feedback awaits
\* dismissal: never in the idle state nor under correct feedback.
C22_HintOnlyWithIncorrect == showHint => feedback = "incorrect"

\* C23: a question is started once per index value.  A step that issues an
\* illustration request is an advance to the next index; drops and
\* dismissals of incorrect feedback leave the illustration URL, the
\* generating flag, the requests and the speech unchanged; the requests in
\* flight belong to distinct questions already reached.
C23_StartedOncePerIndex ==
  /\ [](/\ \A r \in requests : \E i \in 0..currentIndex : questions[i + 1] = r.q
        /\ \A r1, r2 \in requests : r1.q = r2.q => r1 = r2)
  /\ [][/\ (\E r \in requests' : r \notin requests /\ r.step = 1)
             => currentIndex' = currentIndex + 1
        /\ ((\E v \in DropValues : Drop(v))
              \/ (handleCloseFeedback /\ feedback = "incorrect"))
             => UNCHANGED << illustrationUrl, isGenerating, requests,
                             utterance >>]_vars

\* C23 witness: on the second question, after a retry on it, the requests
\* of both questions are still in flight.
C23_Witness ==
  /\ currentIndex = 1 /\ Cardinality(requests) = 2
  /\ feedback = "none" /\ nextTimerId > 1 /\ score = 2

\* C24: while the session is alive a raised generating flag means a request
\* is in flight, and if every request resolves the flag comes down again.
C24_GeneratingHasRequest ==
  /\ []((isMounted /\ isGenerating) => requests # {})
  /\ (isMounted /\ isGenerating) ~> (~isMounted \/ ~isGenerating)

\* C24 witness: the second question of a live session with animations on
\* shows no loading indicator and nothing is in flight any more.
C24_Witness ==
  /\ isMounted /\ ~settings.reduceMotion /\ currentIndex = 1
  /\ ~isGenerating /\ requests = {}

\* C21: a settings toggle whose write succeeds flips exactly the chosen
\* flag, leaves the other two unchanged and persists the full record: the
\* stored item then parses to the settings in memory.
C21_TogglePersists ==
  [][\A key \in SettingKeys :
       ToggleSetting(key)
       => /\ settings'[key] = ~settings[key]
          /\ \A k \in SettingKeys \ {key} : settings'[k] = settings[k]
          /\ storedItem'.kind = "json"
          /\ parse(storedItem'.text) = settings']_vars

\* C21 witness: on the settings page all three flags are on in memory and
\* in the stored record.
C21_Witness ==
  /\ page = "Settings"
  /\ settings = [isTtsEnabled |-> TRUE, isHighContrast |-> TRUE,
                 reduceMotion |-> TRUE]
  /\ storedItem.kind = "json" /\ parse(storedItem.text) = settings

====
